---------------------------- MODULE Spec2Model ----------------------------
(***************************************************************************)
(* A model of gts (src/gts.go), the Go -> Scar source translator.          *)
(*                                                                         *)
(* Text is modelled by TLA+ strings, which TLC treats as sequences of      *)
(* characters (Len, SubSeq and \o apply to them), so formatting, trimming  *)
(* and splitting are computed character by character as the Go code does.  *)
(* An AST node is a record whose field kind names the go/ast node type and *)
(* whose other fields carry the go/ast field names.  A nil node is Nil.    *)
(***************************************************************************)
EXTENDS Integers, Sequences, FiniteSets, TLC

VARIABLES
    file,     \* the parsed file: its declarations (file.Decls), in source order
    c,        \* the ScarConverter: output, indentLevel, imports
    pc,       \* position inside ConvertFile
    di,       \* index of the declaration the second loop of ConvertFile is at
    si,       \* index of the next body statement of the function being converted
    atDecl,   \* history: the converter when the current/last declaration started
    atStmt,   \* history: the converter when the last body statement started
    ev        \* history: what the last step completed

vars == <<file, c, pc, di, si, atDecl, atStmt, ev>>

(***************************************************************************)
(* Bounds of the model.                                                    *)
(***************************************************************************)
\* the largest number of trailing arguments of a formatted-print call
MaxArgs == 2
\* the largest number of else-if links in an if chain
MaxChain == 2

(***************************************************************************)
(* strings: the functions of Go's strings package the translator uses.     *)
(***************************************************************************)
Nil == [kind |-> "nil"]

Char(s, i) == SubSeq(s, i, i)

RECURSIVE Repeat(_, _)
Repeat(s, n) == IF n <= 0 THEN "" ELSE s \o Repeat(s, n - 1)

RECURSIVE Join(_, _)
Join(elems, sep) ==
    IF Len(elems) = 0 THEN ""
    ELSE IF Len(elems) = 1 THEN elems[1]
    ELSE elems[1] \o sep \o Join(Tail(elems), sep)

HasPrefix(s, prefix) ==
    Len(s) >= Len(prefix) /\ SubSeq(s, 1, Len(prefix)) = prefix

HasSuffix(s, suffix) ==
    Len(s) >= Len(suffix) /\ SubSeq(s, Len(s) - Len(suffix) + 1, Len(s)) = suffix

TrimPrefix(s, prefix) ==
    IF HasPrefix(s, prefix) THEN SubSeq(s, Len(prefix) + 1, Len(s)) ELSE s

IsSpace(ch) == ch \in {" ", "\n", "\t", "\r"}

RECURSIVE TrimLeft(_)
TrimLeft(s) ==
    IF Len(s) > 0 /\ IsSpace(Char(s, 1)) THEN TrimLeft(SubSeq(s, 2, Len(s))) ELSE s

RECURSIVE TrimRight(_)
TrimRight(s) ==
    IF Len(s) > 0 /\ IsSpace(Char(s, Len(s)))
    THEN TrimRight(SubSeq(s, 1, Len(s) - 1)) ELSE s

TrimSpace(s) == TrimRight(TrimLeft(s))

\* strings.Split(s, sep) for a one-character sep: the pieces between the
\* separators, empty pieces included.
RECURSIVE SplitFrom(_, _, _, _)
SplitFrom(s, sep, start, i) ==
    IF i > Len(s) THEN <<SubSeq(s, start, Len(s))>>
    ELSE IF Char(s, i) = sep
         THEN <<SubSeq(s, start, i - 1)>> \o SplitFrom(s, sep, i + 1, i + 1)
         ELSE SplitFrom(s, sep, start, i + 1)

Split(s, sep) == SplitFrom(s, sep, 1, 1)


(***************************************************************************)
(* Types and expressions (pure: they read the AST and write nothing).      *)
(***************************************************************************)
RECURSIVE convertType(_)
RECURSIVE convertExpr(_)
RECURSIVE convertExprs(_)
RECURSIVE convertCallExpr(_)
RECURSIVE convertCompositeLit(_)

\* convertType: Go types to Scar types
convertType(expr) ==
    IF expr.kind = "nil" THEN ""
    ELSE CASE expr.kind = "Ident" ->
                (CASE expr.Name \in {"int", "int32"} -> "int"
                   [] expr.Name = "int64" -> "i64"
                   [] expr.Name = "string" -> "string"
                   [] expr.Name = "bool" -> "bool"
                   [] expr.Name = "byte" -> "char"
                   [] expr.Name \in {"float32", "float64"} -> "float"
                   [] OTHER -> expr.Name)
           [] expr.kind = "ArrayType" -> "list[" \o convertType(expr.Elt) \o "]"
           [] expr.kind = "MapType" ->
                "map[" \o convertType(expr.Key) \o ": " \o convertType(expr.Value) \o "]"
           [] expr.kind = "StarExpr" -> "ref " \o convertType(expr.X)
           [] expr.kind = "SelectorExpr" -> convertExpr(expr)
           [] OTHER -> "unknown"

\* convertExpr: Go expressions to Scar expressions
convertExpr(expr) ==
    IF expr.kind = "nil" THEN ""
    ELSE CASE expr.kind = "Ident" -> expr.Name
           [] expr.kind = "BasicLit" -> expr.Value
           [] expr.kind = "BinaryExpr" ->
                convertExpr(expr.X) \o " " \o expr.Op \o " " \o convertExpr(expr.Y)
           [] expr.kind = "UnaryExpr" -> expr.Op \o convertExpr(expr.X)
           [] expr.kind = "CallExpr" -> convertCallExpr(expr)
           [] expr.kind = "SelectorExpr" -> convertExpr(expr.X) \o "." \o expr.Sel
           [] expr.kind = "IndexExpr" ->
                convertExpr(expr.X) \o "[" \o convertExpr(expr.Index) \o "]"
           [] expr.kind = "CompositeLit" -> convertCompositeLit(expr)
           [] expr.kind = "TypeAssertExpr" ->
                "(" \o convertType(expr.Type) \o ")" \o convertExpr(expr.X)
           [] OTHER -> "# unknown expression"

\* the loops that translate a list of expressions, in order
convertExprs(list) ==
    IF Len(list) = 0 THEN <<>>
    ELSE <<convertExpr(Head(list))>> \o convertExprs(Tail(list))

\* a mutation of printfRewrite: the loop over the trailing arguments stops one short
printfDropsLastArg(call) ==
    LET format == convertExpr(call.Args[1])
        args == convertExprs(SubSeq(call.Args, 2, Len(call.Args) - 1))
    IN  IF Len(args) > 0
        THEN "print " \o format \o " | " \o Join(args, ", ")
        ELSE "print " \o format

\* the formatted-print rewrite, for a call with at least one argument
printfRewrite(call) ==
    LET format == convertExpr(call.Args[1])
        args == convertExprs(SubSeq(call.Args, 2, Len(call.Args)))
    IN  IF Len(args) > 0
        THEN "print " \o format \o " | " \o Join(args, ", ")
        ELSE "print " \o format

\* the generic call syntax every unrecognised call ends in
genericCall(funcName, call) ==
    funcName \o "(" \o Join(convertExprs(call.Args), ", ") \o ")"

convertCallExpr(call) ==
    LET fn == call.Fun
        n == Len(call.Args)
    IN  CASE fn.kind = "Ident" ->
              LET funcName == fn.Name
              IN  CASE funcName \in {"fmt.Printf", "printf"} /\ n > 0 ->
                         printfRewrite(call)
                    [] funcName \in {"fmt.Println", "println"} /\ n > 0 ->
                         "print " \o convertExpr(call.Args[1])
                    [] funcName = "make" /\ n > 0
                         /\ HasPrefix(convertType(call.Args[1]), "list[") ->
                         IF n > 1
                         THEN "new " \o convertType(call.Args[1]) \o "("
                                 \o convertExpr(call.Args[2]) \o ")"
                         ELSE "new " \o convertType(call.Args[1]) \o "()"
                    [] funcName = "make" /\ n > 0
                         /\ HasPrefix(convertType(call.Args[1]), "map[") -> "[]"
                    [] funcName = "len" /\ n > 0 ->
                         "len(" \o convertExpr(call.Args[1]) \o ")"
                    [] funcName = "append" /\ n >= 2 ->
                         convertExpr(call.Args[1]) \o ".add("
                            \o convertExpr(call.Args[2]) \o ")"
                    [] OTHER -> genericCall(funcName, call)
          [] fn.kind = "SelectorExpr" ->
              LET obj == convertExpr(fn.X)
                  method == fn.Sel
                  funcName == obj \o "." \o method
              IN  CASE obj = "fmt" /\ method = "Printf" /\ n > 0 -> printfRewrite(call)
                    [] obj = "fmt" /\ method = "Println" /\ n > 0 ->
                         "print " \o convertExpr(call.Args[1])
                    [] OTHER -> genericCall(funcName, call)
          [] OTHER -> genericCall("", call)

convertCompositeLit(lit) ==
    IF lit.Type.kind # "nil" /\ HasPrefix(convertType(lit.Type), "list[")
    THEN "[" \o Join(convertExprs(lit.Elts), ", ") \o "]"
    ELSE "# composite literal"

(***************************************************************************)
(* The converter and its output buffer.                                    *)
(***************************************************************************)
NewScarConverter == [output |-> "", indentLevel |-> 0, imports |-> <<>>]

indent(cv) == Repeat("    ", cv.indentLevel)

writeln(cv, s) == [cv EXCEPT !.output = @ \o indent(cv) \o s \o "\n"]

\* c.indentLevel++ and c.indentLevel--
incIndent(cv) == [cv EXCEPT !.indentLevel = @ + 1]
decIndent(cv) == [cv EXCEPT !.indentLevel = @ - 1]

(***************************************************************************)
(* Statements.  Each operator takes the converter and a statement and      *)
(* yields the converter after the Go method has returned.                  *)
(***************************************************************************)
RECURSIVE convertStmt(_, _)
RECURSIVE convertStmts(_, _)
RECURSIVE convertIfStmt(_, _)
RECURSIVE convertElseIfStmt(_, _)
RECURSIVE convertForStmt(_, _)
RECURSIVE convertRangeStmt(_, _)
RECURSIVE convertBlockStmt(_, _)
RECURSIVE convertSwitchStmt(_, _)
RECURSIVE convertCaseClause(_, _)
RECURSIVE convertStmtToString(_, _)

convertAssignStmt(cv, stmt) ==
    IF Len(stmt.Lhs) = 1 /\ Len(stmt.Rhs) = 1
    THEN LET lhs == convertExpr(stmt.Lhs[1])
             rhs == convertExpr(stmt.Rhs[1])
         IN  CASE stmt.Tok = "=" -> writeln(cv, lhs \o " = " \o rhs)
               [] stmt.Tok = ":=" -> writeln(cv, lhs \o " = " \o rhs)
               [] stmt.Tok = "+=" -> writeln(cv, lhs \o " = " \o lhs \o " + " \o rhs)
               [] stmt.Tok = "-=" -> writeln(cv, lhs \o " = " \o lhs \o " - " \o rhs)
               [] OTHER -> writeln(cv, lhs \o " = " \o rhs)
    ELSE cv

\* the body of the loop over valueSpec.Names in convertDeclStmt, for name i
RECURSIVE localNames(_, _, _)
localNames(cv, valueSpec, i) ==
    IF i > Len(valueSpec.Names) THEN cv
    ELSE LET typ == IF valueSpec.Type.kind # "nil"
                    THEN convertType(valueSpec.Type) ELSE ""
             name == valueSpec.Names[i]
             next ==
                 IF Len(valueSpec.Values) > i - 1
                 THEN LET val == convertExpr(valueSpec.Values[i])
                      IN  IF typ # ""
                          THEN writeln(cv, typ \o " " \o name \o " = " \o val)
                          ELSE writeln(cv, name \o " = " \o val)
                 ELSE IF typ # ""
                      THEN writeln(cv, typ \o " " \o name)
                      ELSE cv
         IN  localNames(next, valueSpec, i + 1)

\* the loop over genDecl.Specs in convertDeclStmt
RECURSIVE localSpecs(_, _)
localSpecs(cv, specs) ==
    IF Len(specs) = 0 THEN cv
    ELSE LET spec == Head(specs)
         IN  localSpecs(IF spec.kind = "ValueSpec" THEN localNames(cv, spec, 1) ELSE cv,
                        Tail(specs))

convertDeclStmt(cv, stmt) ==
    IF stmt.Decl.kind = "GenDecl" THEN localSpecs(cv, stmt.Decl.Specs) ELSE cv

convertReturnStmt(cv, stmt) ==
    IF Len(stmt.Results) = 0 THEN writeln(cv, "return")
    ELSE IF Len(stmt.Results) = 1
         THEN writeln(cv, "return " \o convertExpr(stmt.Results[1]))
         ELSE writeln(cv, "return " \o Join(convertExprs(stmt.Results), ", "))

convertIncDecStmt(cv, stmt) ==
    LET x == convertExpr(stmt.X)
    IN  IF stmt.Tok = "++"
        THEN writeln(cv, x \o " = " \o x \o " + 1")
        ELSE writeln(cv, x \o " = " \o x \o " - 1")

convertBranchStmt(cv, stmt) ==
    CASE stmt.Tok = "break" -> writeln(cv, "break")
      [] stmt.Tok = "continue" -> writeln(cv, "continue")
      [] OTHER -> cv

convertBlockStmt(cv, stmt) == convertStmts(cv, stmt.List)

\* the loop `for _, s := range list { c.convertStmt(s) }`
convertStmts(cv, list) ==
    IF Len(list) = 0 THEN cv
    ELSE convertStmts(convertStmt(cv, Head(list)), Tail(list))

convertIfStmt(cv, stmt) ==
    LET c1 == IF stmt.Init.kind # "nil" THEN convertStmt(cv, stmt.Init) ELSE cv
        c2 == writeln(c1, "if " \o convertExpr(stmt.Cond) \o ":")
        c3 == decIndent(convertBlockStmt(incIndent(c2), stmt.Body))
    IN  CASE stmt.Else.kind = "IfStmt" -> convertElseIfStmt(c3, stmt.Else)
          [] stmt.Else.kind = "BlockStmt" ->
               decIndent(convertBlockStmt(incIndent(writeln(c3, "else:")), stmt.Else))
          [] OTHER -> c3

\* a mutation of convertElseIfStmt: the body's depth is taken back only after
\* the rest of the chain, so the next header is nested under this branch
elseIfMissesDedent(cv, stmt) ==
    LET c1 == IF stmt.Init.kind # "nil" THEN convertStmt(cv, stmt.Init) ELSE cv
        c2 == writeln(c1, "elif " \o convertExpr(stmt.Cond) \o ":")
        c3 == convertBlockStmt(incIndent(c2), stmt.Body)
    IN  CASE stmt.Else.kind = "IfStmt" -> decIndent(convertElseIfStmt(c3, stmt.Else))
          [] stmt.Else.kind = "BlockStmt" ->
               decIndent(decIndent(convertBlockStmt(incIndent(writeln(c3, "else:")),
                                                    stmt.Else)))
          [] OTHER -> decIndent(c3)

convertElseIfStmt(cv, stmt) ==
    LET c1 == IF stmt.Init.kind # "nil" THEN convertStmt(cv, stmt.Init) ELSE cv
        c2 == writeln(c1, "elif " \o convertExpr(stmt.Cond) \o ":")
        c3 == decIndent(convertBlockStmt(incIndent(c2), stmt.Body))
    IN  CASE stmt.Else.kind = "IfStmt" -> convertElseIfStmt(c3, stmt.Else)
          [] stmt.Else.kind = "BlockStmt" ->
               decIndent(convertBlockStmt(incIndent(writeln(c3, "else:")), stmt.Else))
          [] OTHER -> c3

\* the header of a for statement; yields the converter after the header line
forHeader(cv, stmt) ==
    IF stmt.Init.kind # "nil" /\ stmt.Cond.kind # "nil" /\ stmt.Post.kind # "nil"
    THEN LET r1 == convertStmtToString(cv, stmt.Init)
             init == TrimSpace(r1.result)
             cond == convertExpr(stmt.Cond)
             r2 == convertStmtToString(r1.cv, stmt.Post)
             post == TrimSpace(r2.result)
             initParts == Split(init, " ")
         IN  IF Len(initParts) >= 3
             THEN writeln(r2.cv, "for " \o initParts[Len(initParts) - 2] \o "; "
                                   \o cond \o "; " \o post \o ":")
             ELSE writeln(r2.cv, "while " \o cond \o ":")
    ELSE IF stmt.Cond.kind # "nil"
         THEN writeln(cv, "while " \o convertExpr(stmt.Cond) \o ":")
         ELSE writeln(cv, "while true:")

convertForStmt(cv, stmt) ==
    decIndent(convertBlockStmt(incIndent(forHeader(cv, stmt)), stmt.Body))

convertRangeStmt(cv, stmt) ==
    LET x == convertExpr(stmt.X)
        c1 == IF stmt.Key.kind # "nil" /\ stmt.Value.kind # "nil"
              THEN writeln(cv, "for " \o convertExpr(stmt.Key) \o ", "
                                  \o convertExpr(stmt.Value) \o " in " \o x \o ":")
              ELSE IF stmt.Key.kind # "nil"
                   THEN writeln(cv, "for " \o convertExpr(stmt.Key) \o " in " \o x \o ":")
                   ELSE cv
    IN  decIndent(convertBlockStmt(incIndent(c1), stmt.Body))

convertSwitchStmt(cv, stmt) ==
    LET c1 == IF stmt.Init.kind # "nil" THEN convertStmt(cv, stmt.Init) ELSE cv
        c2 == IF stmt.Tag.kind # "nil"
              THEN writeln(c1, "switch " \o convertExpr(stmt.Tag) \o ":")
              ELSE writeln(c1, "switch:")
    IN  decIndent(convertBlockStmt(incIndent(c2), stmt.Body))

\* stmt.List = <<>> stands for the nil list of a default clause
convertCaseClause(cv, stmt) ==
    LET c1 == IF Len(stmt.List) = 0
              THEN writeln(cv, "default:")
              ELSE writeln(cv, "case " \o Join(convertExprs(stmt.List), ", ") \o ":")
    IN  decIndent(convertStmts(incIndent(c1), stmt.Body))

\* a mutation of convertStmtToString: the scratch buffer is not swapped back
toStringKeepsScratch(cv, stmt) ==
    LET oldIndent == cv.indentLevel
        c1 == convertStmt([cv EXCEPT !.output = "", !.indentLevel = 0], stmt)
    IN  [result |-> TrimSpace(c1.output),
         cv |-> [c1 EXCEPT !.indentLevel = oldIndent]]

\* a mutation of convertStmtToString: the saved depth is not put back
toStringKeepsDepth(cv, stmt) ==
    LET oldOutput == cv.output
        c1 == convertStmt([cv EXCEPT !.output = "", !.indentLevel = 0], stmt)
    IN  [result |-> TrimSpace(c1.output),
         cv |-> [c1 EXCEPT !.output = oldOutput]]

\* yields the rendered text (result) and the converter after the call (cv)
convertStmtToString(cv, stmt) ==
    LET oldOutput == cv.output
        oldIndent == cv.indentLevel
        c1 == convertStmt([cv EXCEPT !.output = "", !.indentLevel = 0], stmt)
    IN  [result |-> TrimSpace(c1.output),
         cv |-> [c1 EXCEPT !.output = oldOutput, !.indentLevel = oldIndent]]

convertStmt(cv, stmt) ==
    IF stmt.kind = "nil" THEN cv
    ELSE CASE stmt.kind = "ExprStmt" -> writeln(cv, convertExpr(stmt.X))
           [] stmt.kind = "AssignStmt" -> convertAssignStmt(cv, stmt)
           [] stmt.kind = "DeclStmt" -> convertDeclStmt(cv, stmt)
           [] stmt.kind = "IfStmt" -> convertIfStmt(cv, stmt)
           [] stmt.kind = "ForStmt" -> convertForStmt(cv, stmt)
           [] stmt.kind = "RangeStmt" -> convertRangeStmt(cv, stmt)
           [] stmt.kind = "ReturnStmt" -> convertReturnStmt(cv, stmt)
           [] stmt.kind = "BlockStmt" -> convertBlockStmt(cv, stmt)
           [] stmt.kind = "IncDecStmt" -> convertIncDecStmt(cv, stmt)
           [] stmt.kind = "SwitchStmt" -> convertSwitchStmt(cv, stmt)
           [] stmt.kind = "TypeSwitchStmt" -> writeln(cv, "# type switch not supported */")
           [] stmt.kind = "CaseClause" -> convertCaseClause(cv, stmt)
           [] stmt.kind = "BranchStmt" -> convertBranchStmt(cv, stmt)
           [] OTHER -> writeln(cv, "# unknown statement")

(***************************************************************************)
(* Declarations.                                                           *)
(***************************************************************************)
\* the loop over field.Names that renders `<type> <name>` for each name
RECURSIVE paramNames(_, _)
paramNames(paramType, names) ==
    IF Len(names) = 0 THEN <<>>
    ELSE <<paramType \o " " \o Head(names)>> \o paramNames(paramType, Tail(names))

\* the loop over the fields of a parameter list
RECURSIVE paramList(_)
paramList(fields) ==
    IF Len(fields) = 0 THEN <<>>
    ELSE paramNames(convertType(Head(fields).Type), Head(fields).Names)
            \o paramList(Tail(fields))

isMain(decl) == decl.Name = "main" /\ decl.Recv.kind = "nil"

\* the receiver text convertFuncDecl computes
funcReceiver(decl) ==
    IF decl.Recv.kind # "nil" /\ Len(decl.Recv.List) > 0
    THEN LET field == decl.Recv.List[1]
             recvType == convertType(field.Type)
         IN  "this " \o (IF HasPrefix(recvType, "ref ")
                         THEN TrimPrefix(recvType, "ref ") ELSE recvType)
    ELSE ""

\* the header line of a function that is not the entry point
funcSignature(decl) ==
    LET receiver == funcReceiver(decl)
        funcName == decl.Name
        params == IF decl.Type.Params.kind # "nil"
                  THEN paramList(decl.Type.Params.List) ELSE <<>>
        returnType ==
            IF decl.Type.Results.kind # "nil" /\ Len(decl.Type.Results.List) > 0
               /\ Len(decl.Type.Results.List) = 1
               /\ Len(decl.Type.Results.List[1].Names) <= 1
            THEN " -> " \o convertType(decl.Type.Results.List[1].Type)
            ELSE ""
    IN  IF receiver # ""
        THEN "fn " \o funcName \o "(" \o Join(params, ", ") \o ")" \o returnType \o ":"
        ELSE "fn " \o funcName \o "(" \o Join(params, ", ") \o ")" \o returnType \o ":"

\* a mutation of funcDeclEnter: the entry point gets a header like any function
funcDeclEnterWrapsMain(cv, decl) ==
    IF decl.Body.kind # "nil"
    THEN incIndent(writeln(cv, funcSignature(decl)))
    ELSE writeln(cv, funcSignature(decl))

\* convertFuncDecl up to the call of convertBlockStmt
funcDeclEnter(cv, decl) ==
    IF isMain(decl) THEN cv
    ELSE IF decl.Body.kind # "nil"
         THEN incIndent(writeln(cv, funcSignature(decl)))
         ELSE writeln(cv, funcSignature(decl))

\* convertFuncDecl after the call of convertBlockStmt
funcDeclExit(cv, decl) ==
    IF isMain(decl) THEN cv
    ELSE IF decl.Body.kind # "nil"
         THEN writeln(decIndent(cv), "")
         ELSE writeln(cv, "")

\* the statements convertFuncDecl hands to convertBlockStmt
funcBody(decl) == IF decl.Body.kind # "nil" THEN decl.Body.List ELSE <<>>

\* the loop over name of a struct field: `<type> this.<name>`
RECURSIVE structFieldNames(_, _, _)
structFieldNames(cv, fieldType, names) ==
    IF Len(names) = 0 THEN cv
    ELSE structFieldNames(writeln(cv, fieldType \o " this." \o Head(names)),
                          fieldType, Tail(names))

RECURSIVE structFields(_, _)
structFields(cv, fields) ==
    IF Len(fields) = 0 THEN cv
    ELSE structFields(structFieldNames(cv, convertType(Head(fields).Type),
                                       Head(fields).Names),
                      Tail(fields))

\* the loop over the methods of an interface
RECURSIVE interfaceMethods(_, _)
interfaceMethods(cv, methods) ==
    IF Len(methods) = 0 THEN cv
    ELSE LET method == Head(methods)
             next ==
                 IF Len(method.Names) > 0 /\ method.Type.kind = "FuncType"
                 THEN LET funcType == method.Type
                          params == IF funcType.Params.kind # "nil"
                                    THEN paramList(funcType.Params.List) ELSE <<>>
                          returnType ==
                              IF funcType.Results.kind # "nil"
                                 /\ Len(funcType.Results.List) > 0
                              THEN " -> " \o convertType(funcType.Results.List[1].Type)
                              ELSE ""
                      IN  writeln(cv, "fn " \o method.Names[1] \o "("
                                        \o Join(params, ", ") \o ")" \o returnType)
                 ELSE cv
         IN  interfaceMethods(next, Tail(methods))

convertTypeSpec(cv, spec) ==
    LET t == spec.Type
    IN  CASE t.kind = "StructType" ->
              LET c1 == incIndent(writeln(cv, "class " \o spec.Name \o ":"))
                  c2 == IF t.Fields.kind # "nil" /\ Len(t.Fields.List) > 0
                        THEN decIndent(structFields(incIndent(writeln(c1, "init:")),
                                                    t.Fields.List))
                        ELSE writeln(c1, "init:")
              IN  writeln(decIndent(c2), "")
          [] t.kind = "InterfaceType" ->
              LET c1 == incIndent(writeln(cv, "interface " \o spec.Name \o ":"))
                  c2 == IF t.Methods.kind # "nil"
                        THEN interfaceMethods(c1, t.Methods.List) ELSE c1
              IN  writeln(decIndent(c2), "")
          [] OTHER -> cv

\* the loop over d.Specs of a type declaration in ConvertFile
RECURSIVE typeSpecs(_, _)
typeSpecs(cv, specs) ==
    IF Len(specs) = 0 THEN cv
    ELSE typeSpecs(IF Head(specs).kind = "TypeSpec"
                   THEN convertTypeSpec(cv, Head(specs)) ELSE cv,
                   Tail(specs))

\* the body of the loop over valueSpec.Names in ConvertFile, for name i
RECURSIVE globalNames(_, _, _)
\* a mutation of globalNames: a typed binding without initializer emits nothing
globalNamesDropsBareTyped(cv, valueSpec, i) ==
    IF i > Len(valueSpec.Names) THEN cv
    ELSE LET typ == IF valueSpec.Type.kind # "nil"
                    THEN convertType(valueSpec.Type) ELSE ""
             name == valueSpec.Names[i]
             next ==
                 IF Len(valueSpec.Values) > i - 1
                 THEN LET val == convertExpr(valueSpec.Values[i])
                      IN  IF typ # ""
                          THEN writeln(cv, typ \o " " \o name \o " = " \o val)
                          ELSE writeln(cv, name \o " = " \o val)
                 ELSE cv
         IN  globalNames(next, valueSpec, i + 1)

globalNames(cv, valueSpec, i) ==
    IF i > Len(valueSpec.Names) THEN cv
    ELSE LET typ == IF valueSpec.Type.kind # "nil"
                    THEN convertType(valueSpec.Type) ELSE ""
             name == valueSpec.Names[i]
             next ==
                 IF Len(valueSpec.Values) > i - 1
                 THEN LET val == convertExpr(valueSpec.Values[i])
                      IN  IF typ # ""
                          THEN writeln(cv, typ \o " " \o name \o " = " \o val)
                          ELSE writeln(cv, name \o " = " \o val)
                 ELSE IF typ # ""
                      THEN writeln(cv, typ \o " " \o name)
                      ELSE cv
         IN  globalNames(next, valueSpec, i + 1)

\* the loop over d.Specs of a var or const declaration in ConvertFile
RECURSIVE globalSpecs(_, _)
globalSpecs(cv, specs) ==
    IF Len(specs) = 0 THEN cv
    ELSE globalSpecs(IF Head(specs).kind = "ValueSpec"
                     THEN globalNames(cv, Head(specs), 1) ELSE cv,
                     Tail(specs))

\* the var/const case of ConvertFile: the bindings, then a blank line
convertValueDecl(cv, d) == writeln(globalSpecs(cv, d.Specs), "")

(***************************************************************************)
(* Imports.                                                                *)
(***************************************************************************)
\* a Go case with an empty body does not fall through: it yields ""
convertImportPath(path) ==
    CASE path \in {"crypto/sha256", "crypto/sha512", "crypto/sha1"} -> ""
      [] path = "crypto/md5" -> "std/crypto"
      [] path = "io" -> ""
      [] path = "bufio" -> "std/io"
      [] path = "json" -> "std/json"
      [] path = "regexp" -> "std/regex"
      [] path = "os" -> "std/os"
      [] path = "strings" -> "std/strings"
      [] path = "strconv" -> "std/strings"
      [] path = "math" -> "std/math"
      [] path = "time" -> "std/time"
      [] path = "math/rand" -> "std/random"
      [] OTHER -> ""

\* strings.Trim(s, "\"")
RECURSIVE TrimQuotes(_)
TrimQuotes(s) ==
    IF Len(s) > 0 /\ Char(s, 1) = "\"" THEN TrimQuotes(SubSeq(s, 2, Len(s)))
    ELSE IF Len(s) > 0 /\ Char(s, Len(s)) = "\"" THEN TrimQuotes(SubSeq(s, 1, Len(s) - 1))
    ELSE s

RECURSIVE convertImports(_, _)
convertImports(cv, specs) ==
    IF Len(specs) = 0 THEN cv
    ELSE LET importSpec == Head(specs)
             scarImport == IF importSpec.kind = "ImportSpec"
                           THEN convertImportPath(TrimQuotes(importSpec.Path)) ELSE ""
         IN  convertImports(IF scarImport # ""
                            THEN [cv EXCEPT !.imports = Append(@, scarImport)] ELSE cv,
                            Tail(specs))

\* the first loop of ConvertFile: every import declaration, in order
RECURSIVE processImports(_, _)
processImports(cv, decls) ==
    IF Len(decls) = 0 THEN cv
    ELSE processImports(IF Head(decls).kind = "GenDecl" /\ Head(decls).Tok = "import"
                        THEN convertImports(cv, Head(decls).Specs) ELSE cv,
                        Tail(decls))

\* the loop that writes the import lines, then a blank line if there were any
RECURSIVE writeImportLines(_, _)
writeImportLines(cv, imps) ==
    IF Len(imps) = 0 THEN cv
    ELSE writeImportLines(writeln(cv, "import \"" \o Head(imps) \o "\""), Tail(imps))

writeImports(cv) ==
    LET c1 == writeImportLines(cv, cv.imports)
    IN  IF Len(cv.imports) > 0 THEN writeln(c1, "") ELSE c1

(***************************************************************************)
(* The inputs: go/ast nodes as the parser builds them.                     *)
(***************************************************************************)
Ident(name) == [kind |-> "Ident", Name |-> name]
BasicLit(value) == [kind |-> "BasicLit", Value |-> value]
BinaryExpr(x, op, y) == [kind |-> "BinaryExpr", X |-> x, Op |-> op, Y |-> y]
UnaryExpr(op, x) == [kind |-> "UnaryExpr", Op |-> op, X |-> x]
CallExpr(fun, args) == [kind |-> "CallExpr", Fun |-> fun, Args |-> args]
SelectorExpr(x, sel) == [kind |-> "SelectorExpr", X |-> x, Sel |-> sel]
IndexExpr(x, index) == [kind |-> "IndexExpr", X |-> x, Index |-> index]
CompositeLit(type, elts) == [kind |-> "CompositeLit", Type |-> type, Elts |-> elts]
TypeAssertExpr(x, type) == [kind |-> "TypeAssertExpr", X |-> x, Type |-> type]
ArrayType(elt) == [kind |-> "ArrayType", Elt |-> elt]
MapType(key, value) == [kind |-> "MapType", Key |-> key, Value |-> value]
StarExpr(x) == [kind |-> "StarExpr", X |-> x]
FuncLit == [kind |-> "FuncLit"]

ExprStmt(x) == [kind |-> "ExprStmt", X |-> x]
AssignStmt(lhs, tok, rhs) == [kind |-> "AssignStmt", Lhs |-> lhs, Tok |-> tok, Rhs |-> rhs]
ValueSpec(names, type, values) ==
    [kind |-> "ValueSpec", Names |-> names, Type |-> type, Values |-> values]
GenDecl(tok, specs) == [kind |-> "GenDecl", Tok |-> tok, Specs |-> specs]
DeclStmt(decl) == [kind |-> "DeclStmt", Decl |-> decl]
BlockStmt(list) == [kind |-> "BlockStmt", List |-> list]
IfStmt(init, cond, body, els) ==
    [kind |-> "IfStmt", Init |-> init, Cond |-> cond, Body |-> BlockStmt(body), Else |-> els]
ForStmt(init, cond, post, body) ==
    [kind |-> "ForStmt", Init |-> init, Cond |-> cond, Post |-> post,
     Body |-> BlockStmt(body)]
RangeStmt(key, value, x, body) ==
    [kind |-> "RangeStmt", Key |-> key, Value |-> value, X |-> x, Body |-> BlockStmt(body)]
ReturnStmt(results) == [kind |-> "ReturnStmt", Results |-> results]
IncDecStmt(x, tok) == [kind |-> "IncDecStmt", X |-> x, Tok |-> tok]
SwitchStmt(init, tag, body) ==
    [kind |-> "SwitchStmt", Init |-> init, Tag |-> tag, Body |-> BlockStmt(body)]
CaseClause(list, body) == [kind |-> "CaseClause", List |-> list, Body |-> body]
BranchStmt(tok) == [kind |-> "BranchStmt", Tok |-> tok]
OtherStmt(kind) == [kind |-> kind]

Field(names, type) == [kind |-> "Field", Names |-> names, Type |-> type]
FieldList(list) == [kind |-> "FieldList", List |-> list]
FuncType(params, results) == [kind |-> "FuncType", Params |-> params, Results |-> results]
FuncDecl(name, recv, type, body) ==
    [kind |-> "FuncDecl", Name |-> name, Recv |-> recv, Type |-> type, Body |-> body]
StructType(fields) == [kind |-> "StructType", Fields |-> fields]
InterfaceType(methods) == [kind |-> "InterfaceType", Methods |-> methods]
TypeSpec(name, type) == [kind |-> "TypeSpec", Name |-> name, Type |-> type]
ImportSpec(path) == [kind |-> "ImportSpec", Path |-> path]

\* ---- expressions ----
eI == Ident("i")
eSum == Ident("sum")
eCond == BinaryExpr(eI, "<", BasicLit("10"))
eErr == BinaryExpr(Ident("err"), "!=", Ident("nil"))
eHi == BasicLit("\"hi\"")
eFmt == BasicLit("\"%d-%s\"")
eXs == Ident("xs")
fmtSel(name) == SelectorExpr(Ident("fmt"), name)

\* the pool the trailing arguments of a formatted print are drawn from
ArgPool ==
    <<Ident("n"), Ident("s"), IndexExpr(eXs, eI), CallExpr(Ident("len"), <<eXs>>)>>
TrailingArgs(k) == [j \in 1..k |-> ArgPool[((j - 1) % Len(ArgPool)) + 1]]

PrintfCallees == {fmtSel("Printf"), Ident("printf")}
PrintfCalls ==
    {CallExpr(f, <<eFmt>> \o TrailingArgs(k)) : f \in PrintfCallees, k \in 0..MaxArgs}

OtherCalls ==
    { CallExpr(fmtSel("Printf"), <<>>),
      CallExpr(Ident("Printf"), <<eFmt, Ident("n")>>),
      CallExpr(SelectorExpr(Ident("log"), "Printf"), <<eFmt, Ident("n")>>),
      CallExpr(fmtSel("Println"), <<eHi>>),
      CallExpr(Ident("println"), <<eHi, eI>>),
      CallExpr(fmtSel("Println"), <<>>),
      CallExpr(Ident("append"), <<eXs, BasicLit("5")>>),
      CallExpr(Ident("append"), <<eXs>>),
      CallExpr(Ident("len"), <<eXs>>),
      CallExpr(Ident("make"), <<ArrayType(Ident("int")), BasicLit("3")>>),
      CallExpr(Ident("make"), <<ArrayType(Ident("byte"))>>),
      CallExpr(Ident("make"), <<MapType(Ident("string"), Ident("int64"))>>),
      CallExpr(Ident("make"), <<Ident("T")>>),
      CallExpr(Ident("f"), <<Ident("x"), Ident("y")>>),
      CallExpr(SelectorExpr(Ident("p"), "Move"), <<UnaryExpr("-", eI)>>),
      CallExpr(FuncLit, <<>>),
      CompositeLit(ArrayType(Ident("int")), <<BasicLit("1"), BasicLit("2")>>),
      CompositeLit(Ident("Point"), <<>>),
      TypeAssertExpr(Ident("v"), SelectorExpr(Ident("io"), "Reader")),
      FuncLit }

\* ---- simple statements ----
AssignToks ==
    {"=", ":=", "+=", "-=", "*=", "/=", "%=", "&=", "|=", "^=", "<<=", ">>=", "&^="}

sDefineI == AssignStmt(<<eI>>, ":=", <<BasicLit("0")>>)
sSumPlus == AssignStmt(<<eSum>>, "+=", <<eI>>)
sIncI == IncDecStmt(eI, "++")
sReturnErr == ReturnStmt(<<Ident("err")>>)
sReturnNil == ReturnStmt(<<Ident("nil")>>)
sPrintHi == ExprStmt(CallExpr(fmtSel("Println"), <<eHi>>))

AssignStmts ==
    {AssignStmt(<<eSum>>, tok, <<eI>>) : tok \in AssignToks}
    \cup { AssignStmt(<<IndexExpr(eXs, eI)>>, "-=", <<BinaryExpr(eI, "*", BasicLit("2"))>>),
           AssignStmt(<<Ident("a"), Ident("b")>>, "=", <<Ident("b"), Ident("a")>>),
           AssignStmt(<<Ident("v"), Ident("ok")>>, ":=", <<IndexExpr(Ident("m"), eI)>>) }

\* the var/const groups, used both as local declarations and at top level
ValueGroups ==
    { GenDecl("var", <<ValueSpec(<<"x">>, Ident("int"), <<BasicLit("1")>>)>>),
      GenDecl("var", <<ValueSpec(<<"x">>, Ident("int64"), <<>>)>>),
      GenDecl("var", <<ValueSpec(<<"x">>, Nil, <<BasicLit("1")>>)>>),
      GenDecl("var", <<ValueSpec(<<"a", "b">>, Ident("string"), <<eHi, eHi>>)>>),
      GenDecl("var", <<ValueSpec(<<"a", "b">>, Nil, <<CallExpr(Ident("f"), <<>>)>>)>>),
      GenDecl("var", <<ValueSpec(<<"p">>, StarExpr(Ident("Point")), <<>>),
                       ValueSpec(<<"xs">>, ArrayType(Ident("float64")), <<>>),
                       ValueSpec(<<"n">>, Nil, <<BasicLit("0")>>)>>),
      GenDecl("const", <<ValueSpec(<<"A">>, Nil, <<Ident("iota")>>),
                         ValueSpec(<<"B">>, Nil, <<>>)>>),
      GenDecl("const", <<ValueSpec(<<"Pi">>, Ident("float64"), <<BasicLit("3.14")>>)>>),
      GenDecl("var", <<>>) }

UnsupportedStmts ==
    { OtherStmt("TypeSwitchStmt"), OtherStmt("GoStmt"), OtherStmt("DeferStmt"),
      OtherStmt("SelectStmt"), OtherStmt("LabeledStmt"), OtherStmt("SendStmt"),
      OtherStmt("EmptyStmt"), BranchStmt("goto"), BranchStmt("fallthrough") }

SimpleStmts ==
    {ExprStmt(x) : x \in PrintfCalls \cup OtherCalls}
    \cup AssignStmts
    \cup {DeclStmt(g) : g \in ValueGroups}
    \cup { ReturnStmt(<<>>), sReturnErr, ReturnStmt(<<Ident("v"), Ident("nil")>>),
           sIncI, IncDecStmt(eI, "--"), BranchStmt("break"), BranchStmt("continue") }
    \cup UnsupportedStmts

\* ---- compound statements ----
\* the bodies the branches of the compound statements are built from
BodyPool ==
    << <<sReturnErr>>,
       <<>>,
       <<sSumPlus, sIncI>>,
       <<IfStmt(Nil, eCond, <<sPrintHi>>, BlockStmt(<<sReturnNil>>))>>,
       <<ForStmt(sDefineI, eCond, sIncI, <<BranchStmt("break")>>)>> >>
BodyAt(j) == BodyPool[((j - 1) % Len(BodyPool)) + 1]

CondAt(j) == BinaryExpr(Ident("x"), "==", BasicLit(ToString(j)))

\* the else part of a chain with k more else-if links, link j being the next one
RECURSIVE ElseChain(_, _, _, _, _)
ElseChain(k, j, b, final, init) ==
    IF k = 0 THEN final
    ELSE IfStmt(init, CondAt(j), BodyAt(b + j), ElseChain(k - 1, j + 1, b, final, init))

IfStmts ==
    { IfStmt(init, eErr, BodyAt(b), ElseChain(k, 1, b, final, linkInit)) :
        init \in {Nil, sDefineI}, linkInit \in {Nil, sSumPlus},
        b \in 1..Len(BodyPool), k \in 0..MaxChain,
        final \in {Nil, BlockStmt(<<sReturnNil>>), BlockStmt(<<>>)} }

ForInits ==
    { Nil, sDefineI,
      AssignStmt(<<eI>>, "=", <<BasicLit("0")>>),
      AssignStmt(<<eI>>, ":=", <<Ident("n")>>),
      AssignStmt(<<eI>>, ":=", <<BinaryExpr(Ident("a"), "+", Ident("b"))>>),
      AssignStmt(<<eI>>, ":=", <<CallExpr(Ident("f"), <<Ident("x"), Ident("y")>>)>>),
      AssignStmt(<<eI>>, ":=", <<CallExpr(Ident("len"), <<eXs>>)>>),
      AssignStmt(<<eI>>, ":=", <<BasicLit("\"a b\"")>>),
      AssignStmt(<<eI, Ident("j")>>, ":=", <<BasicLit("0"), BasicLit("9")>>),
      ExprStmt(CallExpr(Ident("f"), <<>>)) }
ForConds == {Nil, eCond}
ForPosts == {Nil, sIncI, IncDecStmt(eI, "--"), AssignStmt(<<eI>>, "+=", <<BasicLit("2")>>)}

ForStmts ==
    {ForStmt(init, cond, post, body) :
        init \in ForInits, cond \in ForConds, post \in ForPosts,
        body \in {<<sSumPlus>>, <<>>}}

RangeStmts ==
    {RangeStmt(kv[1], kv[2], eXs, body) :
        kv \in {<<eI, Ident("v")>>, <<eI, Nil>>, <<Nil, Nil>>},
        body \in {<<sSumPlus>>, <<>>, BodyAt(4)}}

CaseBodies ==
    { <<CaseClause(<<BasicLit("1"), BasicLit("2")>>, <<sPrintHi, BranchStmt("break")>>),
        CaseClause(<<>>, <<sReturnNil>>)>>,
      <<CaseClause(<<eCond>>, <<>>)>>,
      <<CaseClause(<<BasicLit("0")>>, <<BranchStmt("fallthrough")>>),
        CaseClause(<<BasicLit("1")>>, BodyAt(5))>>,
      <<>> }

SwitchStmts ==
    {SwitchStmt(init, tag, body) :
        init \in {Nil, sDefineI}, tag \in {Nil, Ident("x")}, body \in CaseBodies}

NestedStmts ==
    { BlockStmt(<<sSumPlus, BlockStmt(<<sIncI>>)>>),
      BlockStmt(<<>>),
      CaseClause(<<>>, <<sIncI>>),
      CaseClause(<<BasicLit("7")>>, BodyAt(4)),
      ForStmt(sDefineI, eCond, sIncI,
              <<RangeStmt(Ident("k"), Nil, Ident("m"),
                          <<SwitchStmt(Nil, Ident("k"),
                                       <<CaseClause(<<BasicLit("1")>>, BodyAt(5))>>)>>)>>),
      ForStmt(Nil, Nil, Nil,
              <<IfStmt(Nil, eCond, <<BranchStmt("continue")>>,
                       IfStmt(Nil, eErr, <<BranchStmt("goto")>>, BlockStmt(BodyAt(5))))>>) }

Stmts == SimpleStmts \cup IfStmts \cup ForStmts \cup RangeStmts \cup SwitchStmts
            \cup NestedStmts

\* ---- declarations ----
NoParams == FuncType(FieldList(<<>>), Nil)
fPoint == Ident("Point")

FuncTypes ==
    { NoParams,
      FuncType(FieldList(<<Field(<<"a", "b">>, Ident("int")),
                           Field(<<"s">>, Ident("string"))>>),
               FieldList(<<Field(<<>>, Ident("bool"))>>)),
      FuncType(FieldList(<<Field(<<"xs">>, ArrayType(Ident("byte")))>>),
               FieldList(<<Field(<<>>, Ident("int")), Field(<<>>, Ident("error"))>>)),
      FuncType(FieldList(<<>>), FieldList(<<Field(<<"n", "m">>, Ident("int"))>>)) }

Receivers ==
    { FieldList(<<Field(<<"p">>, StarExpr(fPoint))>>),
      FieldList(<<Field(<<"p">>, fPoint)>>),
      FieldList(<<Field(<<>>, StarExpr(StarExpr(fPoint)))>>) }

\* the bodies of two statements: each simple or nested statement next to a
\* classic for loop, in both orders
PairBodies ==
    LET loop == ForStmt(sDefineI, eCond, sIncI, <<sSumPlus>>)
    IN  {<<s, loop>> : s \in SimpleStmts \cup NestedStmts}
        \cup {<<loop, s>> : s \in {sPrintHi, sReturnNil, loop}}

FuncDecls ==
    {FuncDecl(name, Nil, NoParams, BlockStmt(<<s>>)) : name \in {"main", "run"}, s \in Stmts}
    \cup {FuncDecl(name, Nil, NoParams, BlockStmt(b)) :
            name \in {"main", "run"}, b \in PairBodies \cup {<<>>}}
    \cup {FuncDecl(name, recv, type, body) :
            name \in {"main", "Move"}, recv \in Receivers \cup {Nil},
            type \in FuncTypes, body \in {Nil, BlockStmt(<<sSumPlus, sReturnNil>>)}}

TypeDecls ==
    { GenDecl("type", <<TypeSpec("Point",
                         StructType(FieldList(<<Field(<<"X", "Y">>, Ident("int")),
                                                Field(<<"Name">>, Ident("string"))>>)))>>),
      GenDecl("type", <<TypeSpec("Empty", StructType(FieldList(<<>>)))>>),
      GenDecl("type", <<TypeSpec("Shape",
                         InterfaceType(FieldList(
                            <<Field(<<"Area">>,
                                    FuncType(FieldList(<<>>),
                                             FieldList(<<Field(<<>>, Ident("float64"))>>))),
                              Field(<<"Scale">>,
                                    FuncType(FieldList(<<Field(<<"k">>, Ident("int"))>>),
                                             Nil)),
                              Field(<<>>, SelectorExpr(Ident("fmt"), "Stringer"))>>)))>>),
      GenDecl("type", <<TypeSpec("Any", InterfaceType(FieldList(<<>>))),
                        TypeSpec("ID", Ident("int")),
                        TypeSpec("Empty", StructType(FieldList(<<>>)))>>) }

ImportDecls ==
    { GenDecl("import", <<ImportSpec("\"fmt\"")>>),
      GenDecl("import", <<ImportSpec("\"os\""), ImportSpec("\"io\""),
                          ImportSpec("\"crypto/md5\""), ImportSpec("\"crypto/sha1\""),
                          ImportSpec("\"math/rand\"")>>) }

Decls == FuncDecls \cup TypeDecls \cup ValueGroups \cup ImportDecls

\* the declarations that also lead a file of two declarations
LeadDecls ==
    ImportDecls
    \cup { GenDecl("var", <<ValueSpec(<<"x">>, Ident("int"), <<BasicLit("1")>>)>>),
           FuncDecl("run", Nil, NoParams, BlockStmt(<<sPrintHi>>)) }

Files == {<<d>> : d \in Decls} \cup {<<l, d>> : l \in LeadDecls, d \in Decls}

(***************************************************************************)
(* ConvertFile as a state machine.  The imports are one step; each type,   *)
(* var/const and import declaration of the second loop is one step; a      *)
(* function declaration is stepped through: convertFuncDecl up to its body,*)
(* one step per statement of convertBlockStmt's loop over the body, and    *)
(* the rest of convertFuncDecl.                                            *)
(***************************************************************************)
Init ==
    /\ file \in Files
    /\ c = NewScarConverter
    /\ pc = "imports"
    /\ di = 1
    /\ si = 0
    /\ atDecl = NewScarConverter
    /\ atStmt = NewScarConverter
    /\ ev = "start"

\* the declaration the second loop is at, and the statements of its body
curDecl == file[di]
curBody == funcBody(file[di])

\* the two import loops at the head of ConvertFile
Imports ==
    /\ pc = "imports"
    /\ c' = writeImports(processImports(c, file))
    /\ pc' = "decls"
    /\ ev' = "imports"
    /\ UNCHANGED <<file, di, si, atDecl, atStmt>>

FuncDeclEnter ==
    /\ pc = "decls" /\ di <= Len(file)
    /\ curDecl.kind = "FuncDecl"
    /\ atDecl' = c
    /\ c' = funcDeclEnter(c, curDecl)
    /\ pc' = "body"
    /\ si' = 1
    /\ ev' = "enter"
    /\ UNCHANGED <<file, di, atStmt>>

BodyStmt ==
    /\ pc = "body" /\ si <= Len(curBody)
    /\ atStmt' = c
    /\ c' = convertStmt(c, curBody[si])
    /\ si' = si + 1
    /\ ev' = "stmt"
    /\ UNCHANGED <<file, pc, di, atDecl>>

FuncDeclExit ==
    /\ pc = "body" /\ si > Len(curBody)
    /\ c' = funcDeclExit(c, curDecl)
    /\ pc' = "decls"
    /\ di' = di + 1
    /\ si' = 0
    /\ ev' = "decl"
    /\ UNCHANGED <<file, atDecl, atStmt>>

TypeDecl ==
    /\ pc = "decls" /\ di <= Len(file)
    /\ curDecl.kind = "GenDecl" /\ curDecl.Tok = "type"
    /\ atDecl' = c
    /\ c' = typeSpecs(c, curDecl.Specs)
    /\ di' = di + 1
    /\ ev' = "decl"
    /\ UNCHANGED <<file, pc, si, atStmt>>

ValueDecl ==
    /\ pc = "decls" /\ di <= Len(file)
    /\ curDecl.kind = "GenDecl" /\ curDecl.Tok \in {"var", "const"}
    /\ atDecl' = c
    /\ c' = convertValueDecl(c, curDecl)
    /\ di' = di + 1
    /\ ev' = "decl"
    /\ UNCHANGED <<file, pc, si, atStmt>>

\* an import declaration matches no case of the second loop
ImportDecl ==
    /\ pc = "decls" /\ di <= Len(file)
    /\ curDecl.kind = "GenDecl" /\ curDecl.Tok = "import"
    /\ atDecl' = c
    /\ di' = di + 1
    /\ ev' = "decl"
    /\ UNCHANGED <<file, c, pc, si, atStmt>>

\* return c.output.String(), nil
Return ==
    /\ pc = "decls" /\ di > Len(file)
    /\ pc' = "done"
    /\ ev' = "return"
    /\ UNCHANGED <<file, c, di, si, atDecl, atStmt>>

Next ==
    \/ Imports
    \/ FuncDeclEnter
    \/ BodyStmt
    \/ FuncDeclExit
    \/ TypeDecl
    \/ ValueDecl
    \/ ImportDecl
    \/ Return

Spec == Init /\ [][Next]_vars

(***************************************************************************)
(* What the claims are stated with.                                        *)
(***************************************************************************)
\* depth x four spaces, and a line of text at depth d
Pad(d) == Repeat("    ", d)
Line(d, text) == Pad(d) \o text \o "\n"

\* what the statements of list emit, in order, into an empty buffer at depth d
Emit(list, d) == convertStmts([NewScarConverter EXCEPT !.indentLevel = d], list).output

\* the text written between two converter states (to extends from)
Added(from, to) == SubSeq(to.output, Len(from.output) + 1, Len(to.output))

RECURSIVE CountChar(_, _)
CountChar(s, ch) ==
    IF Len(s) = 0 THEN 0
    ELSE (IF Char(s, 1) = ch THEN 1 ELSE 0) + CountChar(SubSeq(s, 2, Len(s)), ch)

\* the text of the first line of s, without its newline
RECURSIVE FirstLineFrom(_, _)
FirstLineFrom(s, i) ==
    IF i > Len(s) \/ Char(s, i) = "\n" THEN SubSeq(s, 1, i - 1) ELSE FirstLineFrom(s, i + 1)
FirstLine(s) == FirstLineFrom(s, 1)

\* the body statement and the declaration whose emission has just completed
lastStmt == curBody[si - 1]
lastDecl == file[di - 1]

StmtDone == ev = "stmt"
DeclDone == ev = "decl"

IsClassicFor(s) ==
    s.kind = "ForStmt" /\ s.Init.kind # "nil" /\ s.Cond.kind # "nil" /\ s.Post.kind # "nil"

(***************************************************************************)
(* C1: indentation balance.  When the emission of a body statement (of any *)
(* kind, with whatever it nests) or of a declaration completes, the        *)
(* indentation depth equals the depth at the moment its emission started.  *)
(***************************************************************************)
IndentationBalance ==
    /\ StmtDone => c.indentLevel = atStmt.indentLevel
    /\ DeclDone => c.indentLevel = atDecl.indentLevel

\* a classic for loop, whose init and post went through convertStmtToString,
\* has been emitted one level deep in a function body
IndentationBalanceWitness ==
    /\ StmtDone
    /\ IsClassicFor(lastStmt)
    /\ Len(lastStmt.Body.List) > 0
    /\ atStmt.indentLevel = 1
    /\ c.indentLevel = 1
    /\ c.output # atStmt.output

(***************************************************************************)
(* C2: emission is append-only and ordered.  The output accumulated before *)
(* a statement or declaration starts is an unchanged prefix of the output  *)
(* after it completes; what a statement appends is what it emits on its    *)
(* own; and the lines of an earlier sibling all precede those of the next. *)
(***************************************************************************)
AppendOnlyOrdered ==
    /\ StmtDone =>
         /\ HasPrefix(c.output, atStmt.output)
         /\ Added(atStmt, c) = Emit(<<lastStmt>>, atStmt.indentLevel)
         /\ si > 2 => HasSuffix(c.output,
                                Emit(<<curBody[si - 2]>>, atStmt.indentLevel)
                                   \o Emit(<<curBody[si - 1]>>, atStmt.indentLevel))
    /\ ev \in {"enter", "stmt", "decl"} => HasPrefix(c.output, atDecl.output)

\* a sibling has been emitted after a classic for loop, below earlier output
AppendOnlyOrderedWitness ==
    /\ StmtDone
    /\ si = 3
    /\ IsClassicFor(curBody[1])
    /\ atDecl.output # ""
    /\ c.output # atStmt.output
    /\ atStmt.output # atDecl.output

IsModeledStmt(s) ==
    \/ s.kind \in {"ExprStmt", "AssignStmt", "DeclStmt", "IfStmt", "ForStmt", "RangeStmt",
                   "ReturnStmt", "BlockStmt", "IncDecStmt", "SwitchStmt", "CaseClause"}
    \/ s.kind = "BranchStmt" /\ s.Tok \in {"break", "continue"}

IsPlaceholderLine(text, d) ==
    /\ HasPrefix(text, Pad(d) \o "#")
    /\ HasSuffix(text, "\n")
    /\ CountChar(text, "\n") = 1

(***************************************************************************)
(* C3: a statement that is none of the modelled variants (the dynamic-type *)
(* switch, go/defer/select/labeled statements, goto, fallthrough) appends  *)
(* exactly one placeholder comment line at the current depth and leaves    *)
(* the depth unchanged.                                                    *)
(***************************************************************************)
UnsupportedEmitsOnePlaceholder ==
    StmtDone /\ ~IsModeledStmt(lastStmt) =>
        /\ HasPrefix(c.output, atStmt.output)
        /\ IsPlaceholderLine(Added(atStmt, c), atStmt.indentLevel)
        /\ c.indentLevel = atStmt.indentLevel

HasReceiver(decl) == decl.Recv.kind # "nil" /\ Len(decl.Recv.List) > 0

DeclaredParams(decl) ==
    IF decl.Type.Params.kind # "nil" THEN paramList(decl.Type.Params.List) ELSE <<>>

ReceiverParam(decl) == "this " \o TrimPrefix(convertType(decl.Recv.List[1].Type), "ref ")

(***************************************************************************)
(* C4: the header of a method lists the receiver as a first parameter      *)
(* `this <Type>`, before the declared parameters, <Type> being the mapped  *)
(* receiver type without a leading `ref `; a function without a receiver   *)
(* has no such parameter.                                                  *)
(***************************************************************************)
ReceiverIsFirstParameter ==
    ev = "enter" /\ ~isMain(curDecl) =>
        LET header == FirstLine(Added(atDecl, c))
        IN  IF HasReceiver(curDecl)
            THEN HasPrefix(header,
                           Pad(atDecl.indentLevel) \o "fn " \o curDecl.Name \o "("
                              \o Join(<<ReceiverParam(curDecl)>> \o DeclaredParams(curDecl),
                                      ", ")
                              \o ")")
            ELSE HasPrefix(header,
                           Pad(atDecl.indentLevel) \o "fn " \o curDecl.Name \o "("
                              \o Join(DeclaredParams(curDecl), ", ") \o ")")

BindsOneVariable(s) ==
    /\ s.kind = "AssignStmt"
    /\ s.Tok \in {"=", ":="}
    /\ Len(s.Lhs) = 1 /\ Len(s.Rhs) = 1
    /\ s.Lhs[1].kind = "Ident"

(***************************************************************************)
(* C5: a classic for loop with init, cond and post whose init binds a      *)
(* single loop variable emits the header `for <var>; <cond>; <post>:`,     *)
(* <var> being the variable the init binds, and its body one level deeper. *)
(***************************************************************************)
ClassicForHeaderNamesLoopVariable ==
    StmtDone /\ IsClassicFor(lastStmt) /\ BindsOneVariable(lastStmt.Init) =>
        Added(atStmt, c) =
            Line(atStmt.indentLevel,
                 "for " \o lastStmt.Init.Lhs[1].Name \o "; " \o convertExpr(lastStmt.Cond)
                    \o "; " \o TrimSpace(Emit(<<lastStmt.Post>>, 0)) \o ":")
               \o Emit(lastStmt.Body.List, atStmt.indentLevel + 1)

RECURSIVE ChainText(_, _, _)
ChainText(s, d, keyword) ==
    Emit(<<s.Init>>, d)
       \o Line(d, keyword \o " " \o convertExpr(s.Cond) \o ":")
       \o Emit(s.Body.List, d + 1)
       \o (CASE s.Else.kind = "IfStmt" -> ChainText(s.Else, d, "elif")
             [] s.Else.kind = "BlockStmt" ->
                  Line(d, "else:") \o Emit(s.Else.List, d + 1)
             [] OTHER -> "")

(***************************************************************************)
(* C6: an if statement emitted at depth d, with an else-if chain of any    *)
(* length, emits `if <cond>:`, every `elif <cond>:` and the final `else:`  *)
(* (present exactly when the chain ends in a block) at depth d, in source  *)
(* order, each followed directly by its own body at depth d + 1.  An init  *)
(* statement of a link is emitted at depth d before the link's header.     *)
(***************************************************************************)
IfChainHeadersAtSameDepth ==
    StmtDone /\ lastStmt.kind = "IfStmt" =>
        Added(atStmt, c) = ChainText(lastStmt, atStmt.indentLevel, "if")

\* an if with two else-if links and a final else has been emitted one level
\* deep: five headers at depth 1
IfChainHeadersAtSameDepthWitness ==
    /\ StmtDone
    /\ lastStmt.kind = "IfStmt"
    /\ lastStmt.Else.kind = "IfStmt"
    /\ lastStmt.Else.Else.kind = "IfStmt"
    /\ lastStmt.Else.Else.Else.kind = "BlockStmt"
    /\ Len(lastStmt.Else.Else.Else.List) > 0
    /\ Len(lastStmt.Else.Body.List) > 0
    /\ atStmt.indentLevel = 1
    /\ HasPrefix(Added(atStmt, c), "    if err != nil:\n        ")
    /\ HasSuffix(c.output, "\n    else:\n        return nil\n")

(***************************************************************************)
(* C7: a function named main without a receiver emits exactly the lines of *)
(* its body statements at the depth of the declaration, with no header;    *)
(* every other function or method (a method named main too) emits a header *)
(* `fn <name>(...)` ending in `:`, its body one level deeper, and a blank  *)
(* line.                                                                   *)
(***************************************************************************)
MainIsFlattened ==
    DeclDone /\ lastDecl.kind = "FuncDecl" =>
        LET d == atDecl.indentLevel
            text == Added(atDecl, c)
            header == FirstLine(text)
        IN  IF lastDecl.Name = "main" /\ lastDecl.Recv.kind = "nil"
            THEN text = Emit(funcBody(lastDecl), d)
            ELSE /\ HasPrefix(header, Pad(d) \o "fn " \o lastDecl.Name \o "(")
                 /\ HasSuffix(header, ":")
                 /\ text = header \o "\n" \o Emit(funcBody(lastDecl), d + 1) \o Line(d, "")

\* main containing fmt.Println("hi") has emitted only `print "hi"`
MainIsFlattenedWitness ==
    /\ DeclDone
    /\ lastDecl = FuncDecl("main", Nil, NoParams, BlockStmt(<<sPrintHi>>))
    /\ Added(atDecl, c) = "print \"hi\"\n"

IsFormattedPrint(x) ==
    /\ x.kind = "CallExpr"
    /\ \/ x.Fun.kind = "SelectorExpr" /\ x.Fun.X = Ident("fmt") /\ x.Fun.Sel = "Printf"
       \/ x.Fun = Ident("printf")
    /\ Len(x.Args) >= 1

\* ` | a1, a2, ...` for the arguments from position j on
RECURSIVE TrailingText(_, _)
TrailingText(args, j) ==
    IF j > Len(args) THEN ""
    ELSE (IF j = 2 THEN " | " ELSE ", ") \o convertExpr(args[j]) \o TrailingText(args, j + 1)

(***************************************************************************)
(* C8: a call of the formatted print (fmt.Printf as a selector, or the     *)
(* bare identifier printf) with a format and n >= 0 trailing arguments is  *)
(* rendered `print <format> | <arg1>, ..., <argn>`, every trailing         *)
(* argument present in source order, and `print <format>` when n = 0.      *)
(***************************************************************************)
FormattedPrintKeepsEveryArgument ==
    StmtDone /\ lastStmt.kind = "ExprStmt" /\ IsFormattedPrint(lastStmt.X) =>
        Added(atStmt, c) =
            Line(atStmt.indentLevel,
                 "print " \o convertExpr(lastStmt.X.Args[1]) \o TrailingText(lastStmt.X.Args, 2))

\* fmt.Printf("%d-%s", n, s) has been emitted as `print "%d-%s" | n, s`
FormattedPrintKeepsEveryArgumentWitness ==
    /\ StmtDone
    /\ lastStmt = ExprStmt(CallExpr(fmtSel("Printf"), <<eFmt, Ident("n"), Ident("s")>>))
    /\ atStmt.indentLevel = 1
    /\ Added(atStmt, c) = "    print \"%d-%s\" | n, s\n"

(***************************************************************************)
(* C9: a single-target, single-source assignment with a compound operator  *)
(* `lhs op= rhs` emits the one line `lhs = lhs op rhs`; a plain assignment *)
(* or a define emits the one line `lhs = rhs`.                             *)
(***************************************************************************)
CompoundAssignIsDesugared ==
    StmtDone /\ lastStmt.kind = "AssignStmt"
             /\ Len(lastStmt.Lhs) = 1 /\ Len(lastStmt.Rhs) = 1 =>
        LET lhs == convertExpr(lastStmt.Lhs[1])
            rhs == convertExpr(lastStmt.Rhs[1])
            op == SubSeq(lastStmt.Tok, 1, Len(lastStmt.Tok) - 1)
        IN  Added(atStmt, c) =
                Line(atStmt.indentLevel,
                     IF lastStmt.Tok \in {"=", ":="}
                     THEN lhs \o " = " \o rhs
                     ELSE lhs \o " = " \o lhs \o " " \o op \o " " \o rhs)

\* the line of binding i of a value spec, by the rules of the claim
BindingLine(spec, i, d) ==
    LET typed == spec.Type.kind # "nil"
        initialised == i <= Len(spec.Values)
    IN  CASE typed /\ initialised ->
               Line(d, convertType(spec.Type) \o " " \o spec.Names[i] \o " = "
                          \o convertExpr(spec.Values[i]))
          [] typed /\ ~initialised -> Line(d, convertType(spec.Type) \o " " \o spec.Names[i])
          [] ~typed /\ initialised ->
               Line(d, spec.Names[i] \o " = " \o convertExpr(spec.Values[i]))
          [] OTHER -> ""

RECURSIVE SpecLines(_, _, _)
SpecLines(spec, i, d) ==
    IF i > Len(spec.Names) THEN ""
    ELSE BindingLine(spec, i, d) \o SpecLines(spec, i + 1, d)

RECURSIVE GroupLines(_, _)
GroupLines(specs, d) ==
    IF Len(specs) = 0 THEN ""
    ELSE SpecLines(Head(specs), 1, d) \o GroupLines(Tail(specs), d)

IsValueGroup(decl) == decl.kind = "GenDecl" /\ decl.Tok \in {"var", "const"}

(***************************************************************************)
(* C10: the binding lines a var/const group emits at top level are exactly *)
(* the lines the same group emits as a local declaration at the same depth *)
(* (typed with initializer `<type> <name> = <init>`, typed without         *)
(* `<type> <name>`, untyped with initializer `<name> = <init>`, untyped    *)
(* without: no line), one line per binding in source order; the top-level  *)
(* form appends exactly one blank line after the group.                    *)
(***************************************************************************)
TopLevelGroupMatchesLocalDecl ==
    DeclDone /\ IsValueGroup(lastDecl) =>
        LET d == atDecl.indentLevel
            local == Emit(<<DeclStmt(lastDecl)>>, d)
        IN  /\ Added(atDecl, c) = local \o Line(d, "")
            /\ local = GroupLines(lastDecl.Specs, d)

\* a group of a typed, a typed and an untyped binding has been emitted at
\* top level, below earlier output
TopLevelGroupMatchesLocalDeclWitness ==
    /\ DeclDone
    /\ IsValueGroup(lastDecl)
    /\ Len(lastDecl.Specs) = 3
    /\ atDecl.output # ""
    /\ Added(atDecl, c) = "ref Point p\nlist[float] xs\nn = 0\n\n"

\* the number of leading spaces of a line
RECURSIVE LeadingSpaces(_)
LeadingSpaces(line) ==
    IF Len(line) > 0 /\ Char(line, 1) = " "
    THEN 1 + LeadingSpaces(SubSeq(line, 2, Len(line))) ELSE 0

\* the depth a line was written at: its indentation in units of four spaces
LineDepth(line) == LeadingSpaces(line) \div 4

\* the lines of a text (the text after the last newline is not a line)
OutputLines(text) ==
    LET parts == Split(text, "\n") IN SubSeq(parts, 1, Len(parts) - 1)

\* every line deeper than the line before it is exactly one level deeper and
\* follows a line ending in `:`; the first line is at depth 0
BlockStructured(lines) ==
    /\ Len(lines) > 0 => LineDepth(lines[1]) = 0
    /\ \A k \in 2..Len(lines) :
          LineDepth(lines[k]) > LineDepth(lines[k - 1]) =>
              /\ LineDepth(lines[k]) = LineDepth(lines[k - 1]) + 1
              /\ HasSuffix(lines[k - 1], ":")

(***************************************************************************)
(* C11: block structure of the output.  After a file is translated, every  *)
(* line that is deeper than the line before it is exactly one level deeper *)
(* and the line before it is a block header ending in `:`; and every       *)
(* ForEach (with two bindings, one binding or none) emits a header         *)
(* `for ... in <source>:` at depth d before its body at depth d + 1.       *)
(***************************************************************************)
OutputIsBlockStructured ==
    /\ pc = "done" => BlockStructured(OutputLines(c.output))
    /\ StmtDone /\ lastStmt.kind = "RangeStmt" =>
          LET header == FirstLine(Added(atStmt, c))
          IN  /\ HasPrefix(header, Pad(atStmt.indentLevel) \o "for ")
              /\ HasSuffix(header, " in " \o convertExpr(lastStmt.X) \o ":")
              /\ Added(atStmt, c) =
                    header \o "\n" \o Emit(lastStmt.Body.List, atStmt.indentLevel + 1)

=============================================================================
